---- MODULE Spec2Model ----
(***************************************************************************)
(* A model of fsql's query front end: lang/transformer.py (parse, the      *)
(* FSQLTree transformer and its literal coercion) and lang/cli.py (the     *)
(* interactive loop start_repl).                                           *)
(*                                                                         *)
(* Texts (token values, identifiers, input lines) are sequences of         *)
(* one-character strings, so that coercion and stripping are computed and  *)
(* not assumed.                                                            *)
(***************************************************************************)
EXTENDS Integers, Sequences, FiniteSets, TLC

(***************************************************************************)
(* Bounds of the model.                                                    *)
(***************************************************************************)
\* The number of variable-length items of one query text: comparisons,
\* array elements, projected fields and setters, all together.
MaxItems == 2
\* The number of parse calls of one run of the repeated-call specification.
MaxCalls == 3
\* The number of lines the user types in one interactive session.
MaxInputs == 3

(***************************************************************************)
(* The state: the caller of parse, and the interactive session.            *)
(***************************************************************************)
VARIABLES
  pc,            \* where the caller of parse is: "idle", "returned" or "raised"
  query,         \* the text of the last call of parse
  result,        \* the outcome of the last call of parse
  calls,         \* the number of calls of parse so far
  transformer,   \* the vars of the FSQLTree the last call built
  seen,          \* the <<text, outcome>> of every call of parse, in order
  repl,          \* start_repl: "loop", "exited" (the while ended) or "crashed"
  go_again,      \* start_repl's go_again
  current_query, \* start_repl's current_query: None or the buffer
  escaped,       \* the exception that left start_repl, "" when none did
  inputs,        \* the number of lines read so far
  executed,      \* the calls of run_query_and_output: text, outcome, lines typed
  typed,         \* the lines typed since the buffer should last have been emptied
  terminated     \* how often the typed lines have built a text ending in ";"

parse_vars == <<pc, query, result, calls, transformer, seen>>
repl_vars == <<repl, go_again, current_query, escaped, inputs, executed, typed, terminated>>
vars == <<pc, query, result, calls, transformer, seen,
          repl, go_again, current_query, escaped, inputs, executed, typed, terminated>>

(***************************************************************************)
(* Python values.  Every value is a record of one shape, so that any two   *)
(* values can be compared: kind is the Python type, n and e hold a number  *)
(* (a float is n * 10^-e), chars the text of a str, items the elements of  *)
(* a list.                                                                 *)
(***************************************************************************)
PyInt(i) == [kind |-> "int", n |-> i, e |-> 0, chars |-> <<>>, items |-> <<>>]
PyFloat(m, d) == [kind |-> "float", n |-> m, e |-> d, chars |-> <<>>, items |-> <<>>]
PyStr(cs) == [kind |-> "str", n |-> 0, e |-> 0, chars |-> cs, items |-> <<>>]
PyBool(b) == [kind |-> "bool", n |-> IF b THEN 1 ELSE 0, e |-> 0, chars |-> <<>>, items |-> <<>>]
PyNone == [kind |-> "NoneType", n |-> 0, e |-> 0, chars |-> <<>>, items |-> <<>>]
PyList(xs) == [kind |-> "list", n |-> 0, e |-> 0, chars |-> <<>>, items |-> xs]

\* The outcome of evaluating a Python expression: a value, or a raised exception.
Ok(v) == [ok |-> TRUE, v |-> v, exc |-> ""]
Raise(cls) == [ok |-> FALSE, v |-> PyNone, exc |-> cls]

(***************************************************************************)
(* ast.literal_eval on the text of one token.                              *)
(***************************************************************************)
Digits == {"0", "1", "2", "3", "4", "5", "6", "7", "8", "9"}
Letters == {"a", "b", "c", "d", "e", "f", "g", "h", "i", "j", "k", "l", "m",
            "n", "o", "p", "q", "r", "s", "t", "u", "v", "w", "x", "y", "z",
            "A", "B", "C", "D", "E", "F", "G", "H", "I", "J", "K", "L", "M",
            "N", "O", "P", "Q", "R", "S", "T", "U", "V", "W", "X", "Y", "Z", "_"}
Quotes == {"'", "\""}

DigitValue(c) ==
  CASE c = "0" -> 0 [] c = "1" -> 1 [] c = "2" -> 2 [] c = "3" -> 3 [] c = "4" -> 4
    [] c = "5" -> 5 [] c = "6" -> 6 [] c = "7" -> 7 [] c = "8" -> 8 [] c = "9" -> 9

AllIn(cs, S) == \A i \in 1..Len(cs) : cs[i] \in S

RECURSIVE DecimalValue(_)
DecimalValue(cs) ==
  IF cs = <<>> THEN 0
  ELSE 10 * DecimalValue(SubSeq(cs, 1, Len(cs) - 1)) + DigitValue(cs[Len(cs)])

\* The positions of "." in cs.
Dots(cs) == {i \in 1..Len(cs) : cs[i] = "."}

IsDecimalInteger(cs) == Len(cs) > 0 /\ AllIn(cs, Digits)
\* Python refuses a decimal integer with a leading zero, unless all is zero.
HasLeadingZero(cs) == Len(cs) > 1 /\ cs[1] = "0" /\ ~AllIn(cs, {"0"})
IsDecimalFloat(cs) ==
  /\ Cardinality(Dots(cs)) = 1
  /\ Len(cs) > 1
  /\ AllIn(cs, Digits \cup {"."})
IsQuoted(cs) ==
  /\ Len(cs) >= 2
  /\ cs[1] \in Quotes
  /\ cs[Len(cs)] = cs[1]
  /\ \A i \in 2..(Len(cs) - 1) : cs[i] # cs[1]
IsName(cs) ==
  /\ Len(cs) > 0
  /\ cs[1] \in Letters
  /\ AllIn(cs, Letters \cup Digits)

UnsignedNumber(cs) ==
  IF IsDecimalInteger(cs)
  THEN IF HasLeadingZero(cs) THEN Raise("SyntaxError") ELSE Ok(PyInt(DecimalValue(cs)))
  ELSE LET dot == CHOOSE i \in Dots(cs) : TRUE
           whole == SubSeq(cs, 1, dot - 1)
           frac == SubSeq(cs, dot + 1, Len(cs))
       IN  Ok(PyFloat(DecimalValue(whole \o frac), Len(frac)))

literal_eval(cs) ==
  IF IsDecimalInteger(cs) \/ IsDecimalFloat(cs) THEN UnsignedNumber(cs)
  ELSE IF Len(cs) > 1 /\ cs[1] = "-" /\ (IsDecimalInteger(Tail(cs)) \/ IsDecimalFloat(Tail(cs)))
  THEN LET r == UnsignedNumber(Tail(cs))
       IN  IF r.ok THEN Ok([r.v EXCEPT !.n = 0 - r.v.n]) ELSE r
  ELSE IF IsQuoted(cs) THEN Ok(PyStr(SubSeq(cs, 2, Len(cs) - 1)))
  ELSE IF cs = <<"T", "r", "u", "e">> THEN Ok(PyBool(TRUE))
  ELSE IF cs = <<"F", "a", "l", "s", "e">> THEN Ok(PyBool(FALSE))
  ELSE IF cs = <<"N", "o", "n", "e">> THEN Ok(PyNone)
  ELSE IF IsName(cs) THEN Raise("ValueError")
  ELSE Raise("SyntaxError")

(***************************************************************************)
(* Lark trees.  A Token is [type, value]; a Tree is [data, children], its  *)
(* children Tokens and Trees.                                              *)
(***************************************************************************)
Token(type, value) == [type |-> type, value |-> value]
Tree(data, children) == [data |-> data, children |-> children]
IsTree(node) == "data" \in DOMAIN node

\* Python's reversed() of a list.
Reversed(xs) == [i \in 1..Len(xs) |-> xs[Len(xs) + 1 - i]]

\* The sub-trees among the nodes xs, in order.
RECURSIVE TreesOf(_)
TreesOf(xs) ==
  IF xs = <<>> THEN <<>>
  ELSE IF IsTree(Head(xs)) THEN <<Head(xs)>> \o TreesOf(Tail(xs))
  ELSE TreesOf(Tail(xs))

\* Tree.iter_subtrees: the queue starts with the tree, every tree taken from it
\* appends its sub-trees in reverse, and the queue is then read backwards.
RECURSIVE SubtreeQueue(_, _)
SubtreeQueue(queue, i) ==
  IF i > Len(queue) THEN queue
  ELSE SubtreeQueue(queue \o Reversed(TreesOf(queue[i].children)), i + 1)

iter_subtrees(tree) == Reversed(SubtreeQueue(<<tree>>, 1))

RECURSIVE WithData(_, _)
WithData(trees, data) ==
  IF trees = <<>> THEN <<>>
  ELSE IF Head(trees).data = data THEN <<Head(trees)>> \o WithData(Tail(trees), data)
  ELSE WithData(Tail(trees), data)

\* list(tree.find_data(data))
find_data(tree, data) == WithData(iter_subtrees(tree), data)

(***************************************************************************)
(* Query texts.  A text is kept as the words the user wrote, by clause:    *)
(* verb, projection, the keyword before the subject, the subject, the      *)
(* setters, the comparisons and the limit.  stray says that the text holds *)
(* a character that starts no terminal of the grammar.                     *)
(***************************************************************************)
W_star == <<"*">>
W_people == <<"p">>
W_person == <<"p", "/", "1">>
W_name == <<"n">>
W_age == <<"a">>
W_tags == <<"t">>
W_eq == <<"=", "=">>
W_ge == <<">", "=">>
W_in == <<"i", "n">>
W_42 == <<"4", "2">>
W_5 == <<"5">>
W_10 == <<"1", "0">>
W_1 == <<"1">>
W_2 == <<"2">>
W_4_5 == <<"4", ".", "5">>
W_x == <<"'", "x", "'">>
W_true == <<"t", "r", "u", "e">>
W_false == <<"f", "a", "l", "s", "e">>
W_null == <<"n", "u", "l", "l">>
W_abc == <<"a", "b", "c">>

\* The literal words of the language, one of each kind.
LiteralWords == {W_42, W_4_5, W_x, W_true, W_false, W_null}
\* What may be written right of "=" in a setter: a literal or an identifier.
SetterWords == LiteralWords \cup {W_abc}
\* What is written right of a comparison's operator; abc is no literal.
MatchWords == {W_42, W_x, W_true, W_null, W_abc}
ArrayWords == {W_1, W_2}
LimitWords == {W_5, W_10}
FieldWords == {W_name, W_age}

WrittenComparison(property, operator, array, words) ==
  [property |-> property, operator |-> operator, array |-> array, words |-> words]
WrittenSetter(property, word) == [property |-> property, word |-> word]

RECURSIVE SeqsUpTo(_, _)
SeqsUpTo(S, n) ==
  IF n <= 0 THEN {<<>>}
  ELSE {<<>>} \cup {<<x>> \o s : x \in S, s \in SeqsUpTo(S, n - 1)}

\* The comparisons that count at most b items: a comparison counts as one
\* item, an array of several elements as that many.
WrittenComparisons(b) ==
  IF b <= 0 THEN {}
  ELSE {WrittenComparison(W_age, W_ge, FALSE, <<w>>) : w \in MatchWords}
       \cup {WrittenComparison(W_tags, W_in, TRUE, ws) : ws \in SeqsUpTo(ArrayWords, b)}

ItemsOfComparison(c) == IF c.array /\ Len(c.words) > 1 THEN Len(c.words) ELSE 1

RECURSIVE WrittenWheres(_)
WrittenWheres(b) ==
  {<<>>} \cup UNION {{<<c>> \o w : w \in WrittenWheres(b - ItemsOfComparison(c))} :
                     c \in WrittenComparisons(b)}

RECURSIVE ItemsOfWhere(_)
ItemsOfWhere(w) == IF w = <<>> THEN 0 ELSE ItemsOfComparison(Head(w)) + ItemsOfWhere(Tail(w))

WrittenQuery(verb, subset, kw, subject, setters, where, limit, stray) ==
  [verb |-> verb, subset |-> subset, kw |-> kw, subject |-> subject,
   setters |-> setters, where |-> where, limit |-> limit, stray |-> stray]

SubjectAfter(kw) == IF kw = <<"A", "T">> THEN W_person ELSE W_people
SubjectKeywords == {<<"W", "I", "T", "H", "I", "N">>, <<"F", "R", "O", "M">>, <<"A", "T">>}

\* SELECT: the projection is "*", a list of fields, or (wrongly) nothing.
SelectQueries(b) ==
  {WrittenQuery("SELECT", s, kw, SubjectAfter(kw), <<>>, w, l, FALSE) :
     s \in {<<W_star>>}, kw \in SubjectKeywords,
     w \in WrittenWheres(b), l \in SeqsUpTo(LimitWords, 1)}
  \cup UNION {{WrittenQuery("SELECT", s, kw, SubjectAfter(kw), <<>>, w, l, FALSE) :
                 kw \in SubjectKeywords, w \in WrittenWheres(b - Len(s)),
                 l \in SeqsUpTo(LimitWords, 1)} :
              s \in SeqsUpTo(FieldWords, b)}

UpdateQueries(b) ==
  UNION {{WrittenQuery("UPDATE", <<>>, kw, SubjectAfter(kw), s, w, <<>>, FALSE) :
            kw \in SubjectKeywords, w \in WrittenWheres(b - Len(s))} :
         s \in SeqsUpTo({WrittenSetter(IF v = W_abc THEN W_age ELSE W_name, v) : v \in SetterWords}, b)}

DeleteQueries(b) ==
  {WrittenQuery("DELETE", <<>>, kw, SubjectAfter(kw), <<>>, w, <<>>, FALSE) :
     kw \in SubjectKeywords, w \in WrittenWheres(b)}

ShowQuery == WrittenQuery("SHOW", <<>>, <<>>, <<>>, <<>>, <<>>, <<>>, FALSE)

\* Texts with a character no terminal matches, such as "SELECT * FROM p #".
StrayQueries ==
  {[q EXCEPT !.stray = TRUE] : q \in SelectQueries(0) \cup DeleteQueries(1) \cup {ShowQuery}}

Queries ==
  SelectQueries(MaxItems) \cup UpdateQueries(MaxItems) \cup DeleteQueries(MaxItems)
    \cup {ShowQuery} \cup StrayQueries

(***************************************************************************)
(* The lexer and the grammar (fsql.lark), as section 6 of the              *)
(* specification describes them: the terminal of each word, the six        *)
(* statement shapes and SHOW COLLECTIONS, and the tree of each production. *)
(***************************************************************************)
IsPath(cs) ==
  /\ Len(cs) > 0
  /\ cs[1] \in Letters
  /\ AllIn(cs, Letters \cup Digits \cup {"/"})

TokenType(word) ==
  CASE word = W_null -> "NULL"
    [] word \in {W_true, W_false} -> "BOOLEAN"
    [] word = <<"W", "I", "T", "H", "I", "N">> -> "WITHIN"
    [] word = <<"F", "R", "O", "M">> -> "FROM"
    [] word = <<"A", "T">> -> "AT"
    [] word = <<"=">> -> "EQUAL"
    [] word \in {W_eq, W_ge, W_in} -> "OPERATOR"
    [] IsDecimalInteger(word) -> "INT"
    [] IsDecimalFloat(word) -> "FLOAT"
    [] IsQuoted(word) -> "STRING"
    [] OTHER -> IF IsPath(word) THEN "CNAME" ELSE "UNKNOWN"

LiteralTypes == {"INT", "FLOAT", "STRING", "BOOLEAN", "NULL"}

\* What stands for an optional clause that was not written.
NoneNode == [none |-> TRUE]
IsNoneNode(node) == "none" \in DOMAIN node

PropertyTree(word) == Tree("property", <<Token(TokenType(word), word)>>)
LiteralTree(word) == Tree("literal", <<Token(TokenType(word), word)>>)
ComparisonTree(c) ==
  Tree("comparrison",
       <<PropertyTree(c.property),
         Tree("operator", <<Token(TokenType(c.operator), c.operator)>>),
         Tree("matching",
              <<IF c.array
                THEN Tree("array", [i \in 1..Len(c.words) |-> LiteralTree(c.words[i])])
                ELSE LiteralTree(c.words[1])>>)>>)
WhereTree(w) ==
  IF w = <<>> THEN NoneNode ELSE Tree("where", [i \in 1..Len(w) |-> ComparisonTree(w[i])])
LimitTree(l) ==
  IF l = <<>> THEN NoneNode ELSE Tree("limit", <<Token(TokenType(l[1]), l[1])>>)
SubsetTree(s) ==
  IF s = <<W_star>> THEN Tree("subset", <<Tree("all", <<>>)>>)
  ELSE Tree("subset", <<Tree("fields", [i \in 1..Len(s) |-> PropertyTree(s[i])])>>)
SubjectTypeTree(kw) == Tree("subject_type", <<Token(TokenType(kw), kw)>>)
SubjectTree(word) == Tree("subject", <<Token(TokenType(word), word)>>)
SetterTree(s) ==
  Tree("setter", <<PropertyTree(s.property), Tree("value", <<Token(TokenType(s.word), s.word)>>)>>)
SettersTree(ss) == Tree("setters", [i \in 1..Len(ss) |-> SetterTree(ss[i])])

WellFormedComparison(c) ==
  /\ TokenType(c.property) = "CNAME"
  /\ TokenType(c.operator) = "OPERATOR"
  /\ \A i \in 1..Len(c.words) : TokenType(c.words[i]) \in LiteralTypes
WellFormedWhere(w) == \A i \in 1..Len(w) : WellFormedComparison(w[i])
WellFormedSubset(s) ==
  \/ s = <<W_star>>
  \/ Len(s) > 0 /\ \A i \in 1..Len(s) : TokenType(s[i]) = "CNAME"
WellFormedSetters(ss) ==
  /\ Len(ss) > 0
  /\ \A i \in 1..Len(ss) :
       /\ TokenType(ss[i].property) = "CNAME"
       /\ TokenType(ss[i].word) \in LiteralTypes \cup {"CNAME"}
WellFormedLimit(l) == \A i \in 1..Len(l) : TokenType(l[i]) = "INT"
Scoped(q) == TokenType(q.kw) \in {"FROM", "WITHIN"} /\ TokenType(q.subject) = "CNAME"
Addressed(q) == TokenType(q.kw) = "AT" /\ TokenType(q.subject) = "CNAME"

\* The production that derives the text, "" when none does.
Production(q) ==
  CASE q.verb = "SELECT" /\ WellFormedSubset(q.subset) /\ Scoped(q)
         /\ WellFormedWhere(q.where) /\ WellFormedLimit(q.limit) -> "select_collection"
    [] q.verb = "SELECT" /\ WellFormedSubset(q.subset) /\ Addressed(q)
         /\ q.where = <<>> /\ q.limit = <<>> -> "select_document"
    [] q.verb = "UPDATE" /\ WellFormedSetters(q.setters) /\ Scoped(q)
         /\ q.where # <<>> /\ WellFormedWhere(q.where) -> "update_collection"
    [] q.verb = "UPDATE" /\ WellFormedSetters(q.setters) /\ Addressed(q)
         /\ q.where = <<>> -> "update_document"
    [] q.verb = "DELETE" /\ Scoped(q) /\ q.where # <<>> /\ WellFormedWhere(q.where)
         -> "delete_collection"
    [] q.verb = "DELETE" /\ Addressed(q) /\ q.where = <<>> -> "delete_document"
    [] q.verb = "SHOW" -> "show_collections"
    [] OTHER -> ""

StatementTree(q) ==
  LET rule == Production(q)
  IN  Tree(rule,
        CASE rule = "select_collection" ->
               <<SubsetTree(q.subset), SubjectTypeTree(q.kw), SubjectTree(q.subject),
                 WhereTree(q.where), LimitTree(q.limit)>>
          [] rule = "select_document" ->
               <<SubsetTree(q.subset), SubjectTypeTree(q.kw), SubjectTree(q.subject)>>
          [] rule = "update_collection" ->
               <<SubjectTypeTree(q.kw), SubjectTree(q.subject), SettersTree(q.setters),
                 WhereTree(q.where)>>
          [] rule = "update_document" ->
               <<SubjectTypeTree(q.kw), SubjectTree(q.subject), SettersTree(q.setters)>>
          [] rule = "delete_collection" ->
               <<SubjectTypeTree(q.kw), SubjectTree(q.subject), WhereTree(q.where)>>
          [] rule = "delete_document" ->
               <<SubjectTypeTree(q.kw), SubjectTree(q.subject)>>
          [] OTHER -> <<>>)

\* Lark(grammar, lexer="basic").parse(query): the tree, or the lexer's or the
\* parser's exception.
Lark_parse(q) ==
  IF q.stray THEN Raise("UnexpectedCharacters")
  ELSE IF Production(q) = "" THEN Raise("UnexpectedToken")
  ELSE [ok |-> TRUE, v |-> Tree("start", <<StatementTree(q)>>), exc |-> ""]

build_parse_tree(q) == Lark_parse(q)

(***************************************************************************)
(* The descriptor model: the enumerations and the dictionaries.            *)
(***************************************************************************)
PyEnum(cls, member, value) ==
  [kind |-> cls, n |-> value, e |-> 0, chars |-> <<member>>, items |-> <<>>]
FSQLQueryType_SELECT == PyEnum("FSQLQueryType", "SELECT", 1)
FSQLQueryType_UPDATE == PyEnum("FSQLQueryType", "UPDATE", 2)
FSQLQueryType_DELETE == PyEnum("FSQLQueryType", "DELETE", 3)
FSQLQueryType_SHOW == PyEnum("FSQLQueryType", "SHOW", 4)
FSQLSubjectType_COLLECTION_GROUP == PyEnum("FSQLSubjectType", "COLLECTION_GROUP", 1)
FSQLSubjectType_DOCUMENT == PyEnum("FSQLSubjectType", "DOCUMENT", 2)
FSQLSubjectType_COLLECTION == PyEnum("FSQLSubjectType", "COLLECTION", 3)

\* The first exception among the results rs, evaluated left to right; good
\* when none raised.
FirstRaised(rs, good) ==
  IF \E i \in 1..Len(rs) : ~rs[i].ok
  THEN Raise(rs[CHOOSE i \in 1..Len(rs) :
                  ~rs[i].ok /\ \A j \in 1..(i - 1) : rs[j].ok].exc)
  ELSE good

\* A list comprehension over already evaluated elements.
ListOf(rs) == FirstRaised(rs, Ok(PyList([i \in 1..Len(rs) |-> rs[i].v])))

(***************************************************************************)
(* FSQLTree: the transformer's methods.  A method's local values are the   *)
(* parameters of the operator that uses them.                              *)
(***************************************************************************)
\* FSQLTree.__init__: the scratch state of a new transformer.
FSQLTree_init == <<>>

\* data_tree[0].children[0].value
first_token_value(data_tree) ==
  IF data_tree = <<>> THEN Raise("IndexError")
  ELSE IF data_tree[1].children = <<>> THEN Raise("IndexError")
  ELSE IF IsTree(data_tree[1].children[1]) THEN Raise("AttributeError")
  ELSE Ok(PyStr(data_tree[1].children[1].value))

data_value(some_tree, data) == first_token_value(find_data(some_tree, data))

as_value(some_tree) ==
  IF some_tree.children = <<>> THEN Raise("IndexError")
  ELSE IF IsTree(some_tree.children[1]) THEN Raise("AttributeError")
  ELSE CASE some_tree.children[1].type = "CNAME" -> Ok(PyStr(some_tree.children[1].value))
         [] some_tree.children[1].type = "NULL" -> Ok(PyNone)
         [] some_tree.children[1].type = "EQUAL" -> Ok(PyStr(some_tree.children[1].value))
         [] OTHER -> literal_eval(some_tree.children[1].value)

\* ast.literal_eval(text) of a text that data_value found.
literal_eval_of(text) == IF text.ok THEN literal_eval(text.v.chars) ELSE text

\* [ast.literal_eval(token.children[0].value) for token in tokens]
literal_eval_each(tokens) ==
  ListOf([i \in 1..Len(tokens) |->
            IF tokens[i].children = <<>> THEN Raise("IndexError")
            ELSE IF IsTree(tokens[i].children[1]) THEN Raise("AttributeError")
            ELSE literal_eval(tokens[i].children[1].value)])

\* The value of the matching's child (lines 99-106).
match_value(matching) ==
  IF ~IsTree(matching) THEN Raise("AttributeError")
  ELSE IF matching.data = "literal" THEN literal_eval_of(data_value(matching, "literal"))
  ELSE IF matching.data = "array" THEN literal_eval_each(find_data(matching, "literal"))
  ELSE Ok(PyNone)

\* list(where.find_data('matching'))[0].children[0], then its value.
first_match_value(found) ==
  IF found = <<>> THEN Raise("IndexError")
  ELSE IF found[1].children = <<>> THEN Raise("IndexError")
  ELSE match_value(found[1].children[1])

as_fsql_match(where) == first_match_value(find_data(where, "matching"))

as_limit_unbounded(limit) == Ok(PyNone)

as_limit(limit) ==
  IF IsNoneNode(limit) THEN Ok(PyNone) ELSE as_value(limit)

\* The dictionary of one comparison; its three entries are evaluated in order.
FSQLWhere(field, operator, value) ==
  FirstRaised(<<field, operator, value>>,
              [ok |-> TRUE, exc |-> "",
               v |-> [field |-> field.v, operator |-> operator.v, value |-> value.v]])

token_as_where_of(found, token) ==
  IF found = <<>> THEN Raise("IndexError")
  ELSE FSQLWhere(as_value(found[1]), data_value(token, "operator"), as_fsql_match(token))

token_as_where(token) == token_as_where_of(find_data(token, "property"), token)

token_as_where_each(tokens) == ListOf([i \in 1..Len(tokens) |-> token_as_where(tokens[i])])

as_where(where) ==
  IF IsNoneNode(where) THEN Ok(PyNone)
  ELSE token_as_where_each(find_data(where, "comparrison"))

\* The dictionary of one setter.
FSQLUpdateSet(property, value) ==
  FirstRaised(<<property, value>>,
              [ok |-> TRUE, exc |-> "",
               v |-> [property |-> property.v, value |-> value.v]])

as_setter_of(found, token) ==
  IF found = <<>> THEN Raise("IndexError")
  ELSE IF Len(token.children) < 2 THEN Raise("IndexError")
  ELSE IF ~IsTree(token.children[2]) THEN Raise("AttributeError")
  ELSE FSQLUpdateSet(as_value(found[1]), as_value(token.children[2]))

as_setter(token) == as_setter_of(find_data(token, "property"), token)

as_setter_each(tokens) == ListOf([i \in 1..Len(tokens) |-> as_setter(tokens[i])])

as_setters(setter) == as_setter_each(find_data(setter, "setter"))

as_value_each(trees) == ListOf([i \in 1..Len(trees) |-> as_value(trees[i])])

as_fields(select) ==
  IF select.children = <<>> THEN Raise("IndexError")
  ELSE IF ~IsTree(select.children[1]) THEN Raise("AttributeError")
  ELSE IF select.children[1].data = "fields"
  THEN as_value_each(find_data(select.children[1], "property"))
  ELSE Ok(PyStr(W_star))

as_fsql_subject_type_no_from(subject_type) ==
  IF subject_type.children = <<>> THEN Raise("IndexError")
  ELSE CASE subject_type.children[1].type = "WITHIN" -> Ok(FSQLSubjectType_COLLECTION_GROUP)
         [] subject_type.children[1].type = "AT" -> Ok(FSQLSubjectType_DOCUMENT)
         [] OTHER -> Ok(PyNone)

as_fsql_subject_type(subject_type) ==
  IF subject_type.children = <<>> THEN Raise("IndexError")
  ELSE IF IsTree(subject_type.children[1]) THEN Raise("AttributeError")
  ELSE CASE subject_type.children[1].type = "WITHIN" -> Ok(FSQLSubjectType_COLLECTION_GROUP)
         [] subject_type.children[1].type = "FROM" -> Ok(FSQLSubjectType_COLLECTION)
         [] subject_type.children[1].type = "AT" -> Ok(FSQLSubjectType_DOCUMENT)
         [] OTHER -> Ok(PyNone)

\* The dictionaries of the descriptors; the entries are evaluated in the order
\* of the source, and the first exception is the one raised.
FSQLSelectQuery(fields, subject, subject_type, where, limit) ==
  FirstRaised(<<fields, subject, subject_type, where, limit>>,
              [ok |-> TRUE, exc |-> "",
               v |-> [query_type |-> FSQLQueryType_SELECT, fields |-> fields.v,
                      subject |-> subject.v, subject_type |-> subject_type.v,
                      where |-> where.v, limit |-> limit.v]])

FSQLUpdateQuery(setters, subject, subject_type, where) ==
  FirstRaised(<<setters, subject, subject_type, where>>,
              [ok |-> TRUE, exc |-> "",
               v |-> [query_type |-> FSQLQueryType_UPDATE, subject |-> subject.v,
                      subject_type |-> subject_type.v, where |-> where.v,
                      set |-> setters.v]])

FSQLQuery(subject, subject_type, where) ==
  FirstRaised(<<subject, subject_type, where>>,
              [ok |-> TRUE, exc |-> "",
               v |-> [query_type |-> FSQLQueryType_DELETE, subject |-> subject.v,
                      subject_type |-> subject_type.v, where |-> where.v]])

do_select(subset, subject_type, subject, where, limit) ==
  FSQLSelectQuery(as_fields(subset), as_value(subject), as_fsql_subject_type(subject_type),
                  as_where(where), as_limit(limit))

select_collection(subset, subject_type, subject, where, limit) ==
  do_select(subset, subject_type, subject, where, limit)

select_document_filtered(subset, subject_type, subject) ==
  do_select(subset, subject_type, subject, Tree("where", <<>>), NoneNode)

select_document(subset, subject_type, subject) ==
  do_select(subset, subject_type, subject, NoneNode, NoneNode)

update(subject_type, subject, setter, where) ==
  FSQLUpdateQuery(as_setters(setter), as_value(subject), as_fsql_subject_type(subject_type),
                  as_where(where))

update_collection(subject_type, subject, setter, where) ==
  update(subject_type, subject, setter, where)

update_document(subject_type, subject, setter) ==
  update(subject_type, subject, setter, NoneNode)

delete(subject_type, subject, where) ==
  FSQLQuery(as_value(subject), as_fsql_subject_type(subject_type), as_where(where))

delete_collection(subject_type, subject, where) == delete(subject_type, subject, where)

delete_document(subject_type, subject) == delete(subject_type, subject, NoneNode)

show_collections ==
  [ok |-> TRUE, exc |-> "",
   v |-> [query_type |-> FSQLQueryType_SHOW, subject |-> PyNone,
          subject_type |-> FSQLSubjectType_COLLECTION, where |-> PyNone]]

\* The callback of a statement's rule, called with the statement's children;
\* a wrong number of children is a TypeError.
callback(rule, c) ==
  CASE rule = "select_collection" /\ Len(c) = 5 -> select_collection(c[1], c[2], c[3], c[4], c[5])
    [] rule = "select_document" /\ Len(c) = 3 -> select_document(c[1], c[2], c[3])
    [] rule = "update_collection" /\ Len(c) = 4 -> update_collection(c[1], c[2], c[3], c[4])
    [] rule = "update_document" /\ Len(c) = 3 -> update_document(c[1], c[2], c[3])
    [] rule = "delete_collection" /\ Len(c) = 3 -> delete_collection(c[1], c[2], c[3])
    [] rule = "delete_document" /\ Len(c) = 2 -> delete_document(c[1], c[2])
    [] rule = "show_collections" /\ Len(c) = 0 -> show_collections
    [] OTHER -> Raise("TypeError")

\* The start rule has no callback: it keeps the callback's result as its child.
\* Transformer wraps an exception raised in a callback in lark's VisitError.
start_tree(done) ==
  IF done.ok THEN [ok |-> TRUE, exc |-> "", v |-> Tree("start", <<done.v>>)]
  ELSE Raise("VisitError")

\* Transformer.transform on the start tree.
transform(parse_tree) ==
  start_tree(callback(parse_tree.children[1].data, parse_tree.children[1].children))

(***************************************************************************)
(* parse: the one entry point.  Its outcome is the descriptor returned or  *)
(* the exception that leaves it, with the exception that caused it.        *)
(***************************************************************************)
NoDescriptor == [query_type |-> PyNone]
Returned(value) == [status |-> "returned", value |-> value, exc |-> "", cause |-> ""]
Raised(cls, cause) == [status |-> "raised", value |-> NoDescriptor, exc |-> cls, cause |-> cause]
NoOutcome == [status |-> "none", value |-> NoDescriptor, exc |-> "", cause |-> ""]

\* ql_tree.children[0], or the exception wrapped (lines 244-247).
first_child(ql_tree) ==
  IF ~ql_tree.ok THEN Raised("QuerySyntaxError", ql_tree.exc)
  ELSE IF ql_tree.v.children = <<>> THEN Raised("QuerySyntaxError", "IndexError")
  ELSE Returned(ql_tree.v.children[1])

transformed(parse_tree) ==
  IF ~parse_tree.ok THEN Raised("QuerySyntaxError", parse_tree.exc)
  ELSE first_child(transform(parse_tree.v))

\* An except clause that lets the failures of the transformer through.
transformed_unwrapped(parse_tree) ==
  IF ~parse_tree.ok THEN Raised("QuerySyntaxError", parse_tree.exc)
  ELSE IF ~transform(parse_tree.v).ok THEN Raised(transform(parse_tree.v).exc, "")
  ELSE first_child(transform(parse_tree.v))

parse_unwrapped(q) == transformed_unwrapped(build_parse_tree(q))

\* A transformer kept between calls, in which a failure sticks.
parse_sticky_error(q) ==
  IF result.status = "raised" THEN result ELSE transformed(build_parse_tree(q))

parse(q) == transformed(build_parse_tree(q))

(***************************************************************************)
(* The interactive loop of lang/cli.py.                                    *)
(***************************************************************************)
W_exit == <<"e", "x", "i", "t">>
W_cls == <<"c", "l", "s">>
Whitespace == {" "}

\* str.strip()
RECURSIVE lstrip(_)
lstrip(cs) == IF cs # <<>> /\ Head(cs) \in Whitespace THEN lstrip(Tail(cs)) ELSE cs
RECURSIVE rstrip(_)
rstrip(cs) ==
  IF cs # <<>> /\ cs[Len(cs)] \in Whitespace THEN rstrip(SubSeq(cs, 1, Len(cs) - 1)) ELSE cs
strip(cs) == rstrip(lstrip(cs))

endswith(cs, c) == cs # <<>> /\ cs[Len(cs)] = c

\* The lines the user may type at a prompt.
InputLines ==
  {<<>>, <<"q">>, <<"r", ";">>, <<";">>, <<" ", "q", " ">>, <<"r", ";", " ">>, W_exit, W_cls}

\* How ql.run_query(text) followed by the printing of its results may end:
\* well, with ql.QueryError, or with parse's QuerySyntaxError, which
\* transformer.py derives from Exception and not from ql.QueryError.
RunOutcomes == {"ok", "QueryError", "QuerySyntaxError"}

\* The buffer after the next line was read (lines 67-70).
read_line(current, line) ==
  IF current.kind = "NoneType" THEN strip(line)
  ELSE strip(current.chars \o <<" ">> \o line)

\* The buffer after run_query_and_output ended with outcome (lines 79-85):
\* the finally clause clears it on every path.
after_run_keep_on_error(buffer, outcome) == IF outcome = "ok" THEN PyNone ELSE PyStr(buffer)

after_run(buffer, outcome) == PyNone

\* Whether the exception of outcome is caught by "except ql.QueryError".
caught(outcome) == outcome \in {"ok", "QueryError"}

Init ==
  /\ pc = "idle"
  /\ query = ShowQuery
  /\ result = NoOutcome
  /\ calls = 0
  /\ transformer = <<>>
  /\ seen = <<>>
  /\ repl = "loop"
  /\ go_again = TRUE
  /\ current_query = PyNone
  /\ escaped = ""
  /\ inputs = 0
  /\ executed = <<>>
  /\ typed = <<>>
  /\ terminated = 0

\* One call parse(q): a new FSQLTree is built for it.
Call(q, limit) ==
  /\ pc = "idle"
  /\ calls < limit
  /\ query' = q
  /\ result' = parse(q)
  /\ pc' = result'.status
  /\ calls' = calls + 1
  /\ transformer' = FSQLTree_init
  /\ seen' = Append(seen, <<q, result'>>)
  /\ UNCHANGED repl_vars

\* The caller takes the outcome and is ready to call again.
Resume ==
  /\ pc # "idle"
  /\ pc' = "idle"
  /\ UNCHANGED <<query, result, calls, transformer, seen>>
  /\ UNCHANGED repl_vars

ParseOnce == \E q \in Queries : Call(q, 1)

Next == ParseOnce \/ Resume

Spec == Init /\ [][Next]_vars

\* The texts of the repeated-call runs: the examples of the specification's
\* section 8, well-formed and malformed.
Q_select_all ==
  WrittenQuery("SELECT", <<W_star>>, <<"F", "R", "O", "M">>, W_people, <<>>, <<>>, <<>>, FALSE)
Q_select_fields ==
  WrittenQuery("SELECT", <<W_name, W_age>>, <<"F", "R", "O", "M">>, W_people, <<>>,
               <<WrittenComparison(W_age, W_ge, FALSE, <<W_42>>)>>, <<W_5>>, FALSE)
Q_select_in ==
  WrittenQuery("SELECT", <<W_star>>, <<"W", "I", "T", "H", "I", "N">>, W_people, <<>>,
               <<WrittenComparison(W_tags, W_in, TRUE, <<W_1, W_2>>)>>, <<>>, FALSE)
Q_update_true ==
  WrittenQuery("UPDATE", <<>>, <<"A", "T">>, W_person, <<WrittenSetter(W_name, W_true)>>,
               <<>>, <<>>, FALSE)
Q_update_string ==
  WrittenQuery("UPDATE", <<>>, <<"A", "T">>, W_person, <<WrittenSetter(W_name, W_x)>>,
               <<>>, <<>>, FALSE)
Q_delete_null ==
  WrittenQuery("DELETE", <<>>, <<"W", "I", "T", "H", "I", "N">>, W_people, <<>>,
               <<WrittenComparison(W_age, W_ge, FALSE, <<W_null>>)>>, <<>>, FALSE)
Q_select_from ==
  WrittenQuery("SELECT", <<>>, <<"F", "R", "O", "M">>, W_people, <<>>, <<>>, <<>>, FALSE)
Q_where_abc ==
  WrittenQuery("DELETE", <<>>, <<"F", "R", "O", "M">>, W_people, <<>>,
               <<WrittenComparison(W_age, W_ge, FALSE, <<W_abc>>)>>, <<>>, FALSE)

SuiteQueries ==
  {ShowQuery, Q_select_all, Q_select_fields, Q_select_in, Q_update_true, Q_update_string,
   Q_delete_null, Q_select_from, Q_where_abc}

ParseAgain == \E q \in SuiteQueries : Call(q, MaxCalls)

RepeatNext == ParseAgain \/ Resume

RepeatSpec == Init /\ [][RepeatNext]_vars

\* The text the lines typed so far build, each line joined to the stripped
\* text before it.
RECURSIVE Accumulated(_)
Accumulated(lines) ==
  IF lines = <<>> THEN <<>>
  ELSE IF Len(lines) = 1 THEN strip(lines[1])
  ELSE strip(Accumulated(SubSeq(lines, 1, Len(lines) - 1)) \o <<" ">> \o lines[Len(lines)])

\* One turn of the while loop of start_repl (lines 65-85): a line is read, and
\* the buffer is left, cleared, or run as a query that ends with outcome.
start_repl_turn(line, outcome) ==
  /\ repl = "loop"
  /\ go_again
  /\ inputs < MaxInputs
  /\ inputs' = inputs + 1
  /\ LET buffer == read_line(current_query, line)
         runs == buffer # W_cls /\ endswith(buffer, ";")
         text == SubSeq(buffer, 1, Len(buffer) - 1)
         all == Append(typed, line)
         whole == Accumulated(all)
     IN  /\ go_again' = (buffer # W_exit)
         /\ current_query' =
              IF buffer = W_cls THEN PyNone
              ELSE IF runs THEN after_run(buffer, outcome)
              ELSE PyStr(buffer)
         /\ executed' =
              IF runs
              THEN Append(executed, [text |-> text, outcome |-> outcome, lines |-> all])
              ELSE executed
         /\ escaped' = IF runs /\ ~caught(outcome) THEN outcome ELSE ""
         /\ repl' =
              IF runs /\ ~caught(outcome) THEN "crashed"
              ELSE IF buffer = W_exit THEN "exited"
              ELSE "loop"
         /\ typed' = IF whole = W_cls \/ endswith(whole, ";") THEN <<>> ELSE all
         /\ terminated' = IF endswith(whole, ";") THEN terminated + 1 ELSE terminated
         /\ (runs \/ outcome = "ok")
  /\ UNCHANGED parse_vars

\* input() meets the end of the input: EOFError leaves start_repl, which does
\* not catch it, and query, which catches ql.QueryError only.
start_repl_eof ==
  /\ repl = "loop"
  /\ go_again
  /\ inputs < MaxInputs
  /\ inputs' = inputs + 1
  /\ repl' = "crashed"
  /\ escaped' = "EOFError"
  /\ UNCHANGED <<go_again, current_query, executed, typed, terminated>>
  /\ UNCHANGED parse_vars

ReplNext ==
  \/ \E line \in InputLines, outcome \in RunOutcomes : start_repl_turn(line, outcome)
  \/ start_repl_eof

ReplSpec == Init /\ [][ReplNext]_vars

(***************************************************************************)
(* What the statements of the specification say about a text: the value a  *)
(* written word stands for, and the clauses a text should give.            *)
(***************************************************************************)
\* The value of a word of the language (section 8: 42 is the integer 42, 4.5
\* the float 4.5, 'x' the string x, true and false the booleans, null null);
\* an identifier stands for its own text.
Denoted(word) ==
  CASE word = W_42 -> PyInt(42)
    [] word = W_1 -> PyInt(1)
    [] word = W_2 -> PyInt(2)
    [] word = W_5 -> PyInt(5)
    [] word = W_10 -> PyInt(10)
    [] word = W_4_5 -> PyFloat(45, 1)
    [] word = W_x -> PyStr(<<"x">>)
    [] word = W_true -> PyBool(TRUE)
    [] word = W_false -> PyBool(FALSE)
    [] word = W_null -> PyNone
    [] OTHER -> PyStr(word)

DenotedMatch(c) ==
  IF c.array THEN PyList([j \in 1..Len(c.words) |-> Denoted(c.words[j])])
  ELSE Denoted(c.words[1])

DenotedWhere(w) ==
  PyList([i \in 1..Len(w) |->
            [field |-> PyStr(w[i].property), operator |-> PyStr(w[i].operator),
             value |-> DenotedMatch(w[i])]])

DenotedSet(ss) ==
  PyList([i \in 1..Len(ss) |->
            [property |-> PyStr(ss[i].property), value |-> Denoted(ss[i].word)]])

DenotedFields(s) ==
  IF s = <<W_star>> THEN PyStr(W_star) ELSE PyList([i \in 1..Len(s) |-> PyStr(s[i])])

DenotedSubjectType(kw) ==
  CASE kw = <<"W", "I", "T", "H", "I", "N">> -> FSQLSubjectType_COLLECTION_GROUP
    [] kw = <<"F", "R", "O", "M">> -> FSQLSubjectType_COLLECTION
    [] kw = <<"A", "T">> -> FSQLSubjectType_DOCUMENT
    [] OTHER -> PyNone

\* The text is one of the statements of section 6.
Grammatical(q) == ~q.stray /\ Production(q) # ""

\* A call of parse has ended, with a descriptor or with an exception.
HasReturned == calls > 0 /\ result.status = "returned"
HasRaised == calls > 0 /\ result.status = "raised"

\* The keys of the descriptor of each statement kind.
KeysOf(verb) ==
  CASE verb = "SELECT" -> {"query_type", "fields", "subject", "subject_type", "where", "limit"}
    [] verb = "UPDATE" -> {"query_type", "subject", "subject_type", "where", "set"}
    [] OTHER -> {"query_type", "subject", "subject_type", "where"}

QueryTypeOf(verb) ==
  CASE verb = "SELECT" -> FSQLQueryType_SELECT
    [] verb = "UPDATE" -> FSQLQueryType_UPDATE
    [] verb = "DELETE" -> FSQLQueryType_DELETE
    [] OTHER -> FSQLQueryType_SHOW

\* The original failure of a text that is no statement: the lexer's for a stray
\* character, the parser's otherwise.
ParseFailure(q) == IF q.stray THEN "UnexpectedCharacters" ELSE "UnexpectedToken"

(***************************************************************************)
(* C1: every call of parse ends in one of two ways: it returns a complete  *)
(* descriptor of the statement's kind, or it raises QuerySyntaxError, with *)
(* the original failure as its cause and no descriptor; a text that is no  *)
(* statement raises with the lexer's or the parser's failure as the cause, *)
(* a statement whose transformation fails with the transformer's.          *)
(***************************************************************************)
C1_ParseAllOrNothing ==
  calls > 0 =>
    /\ \/ /\ result.status = "returned"
          /\ Grammatical(query)
          /\ DOMAIN result.value = KeysOf(query.verb)
          /\ result.value.query_type = QueryTypeOf(query.verb)
       \/ /\ result.status = "raised"
          /\ result.exc = "QuerySyntaxError"
          /\ result.cause # ""
          /\ result.value = NoDescriptor
    /\ ~Grammatical(query) =>
         result.status = "raised" /\ result.cause = ParseFailure(query)
    /\ (Grammatical(query) /\ result.status = "raised") => result.cause = "VisitError"

\* A statement whose literal the coercion refuses: the transformer's failure
\* left parse as QuerySyntaxError.
C1_Witness ==
  /\ HasRaised
  /\ Grammatical(query)
  /\ result.exc = "QuerySyntaxError"
  /\ result.cause = "VisitError"

(***************************************************************************)
(* C2: in every Select, Update and Delete descriptor that parse returns,   *)
(* subject_type is the one of the keyword written before the subject:      *)
(* WITHIN CollectionGroup, FROM Collection, AT Document; never None.       *)
(***************************************************************************)
C2_SubjectTypeByKeyword ==
  (HasReturned /\ query.verb \in {"SELECT", "UPDATE", "DELETE"}) =>
    /\ result.value.subject_type = DenotedSubjectType(query.kw)
    /\ result.value.subject_type.kind = "FSQLSubjectType"

C2_Witness ==
  /\ HasReturned
  /\ query.verb = "UPDATE"
  /\ query.kw = <<"F", "R", "O", "M">>
  /\ result.value.subject_type = FSQLSubjectType_COLLECTION

(***************************************************************************)
(* C3: in every descriptor that parse returns, where is None when the      *)
(* subject is a Document and when no WHERE clause was written, and a list  *)
(* only for a FROM or WITHIN statement with a WHERE clause; a Select of a  *)
(* document has limit None as well.                                        *)
(***************************************************************************)
C3_WhereNoneForDocument ==
  HasReturned =>
    /\ (result.value.subject_type = FSQLSubjectType_DOCUMENT \/ query.where = <<>>)
         => result.value.where = PyNone
    /\ result.value.where # PyNone =>
         /\ result.value.where.kind = "list"
         /\ query.kw \in {<<"F", "R", "O", "M">>, <<"W", "I", "T", "H", "I", "N">>}
         /\ query.where # <<>>
    /\ (query.verb = "SELECT" /\ result.value.subject_type = FSQLSubjectType_DOCUMENT)
         => result.value.limit = PyNone

C3_Witness ==
  /\ HasReturned
  /\ query.verb = "SELECT"
  /\ result.value.subject_type = FSQLSubjectType_DOCUMENT
  /\ result.value.where = PyNone

(***************************************************************************)
(* C4: every literal of the language is coerced to its typed value where   *)
(* it is resolved, in a setter (as_value) and in a comparison              *)
(* (as_fsql_match), and none of them makes parse fail: every statement     *)
(* returns, its set and its where holding the values the words stand for.  *)
(***************************************************************************)
C4_LiteralsCoerced ==
  (calls > 0 /\ Grammatical(query)) =>
    /\ result.status = "returned"
    /\ query.verb = "UPDATE" => result.value.set = DenotedSet(query.setters)
    /\ result.value.where # PyNone => result.value.where = DenotedWhere(query.where)

(***************************************************************************)
(* C5: a statement with a WHERE clause of n comparisons gives a descriptor *)
(* whose where holds n clauses in source order, each with the property,    *)
(* the operator's text and the match value; an array gives the list of its *)
(* elements in source order, an empty array the empty list.                *)
(***************************************************************************)
C5_WhereInSourceOrder ==
  (calls > 0 /\ Grammatical(query) /\ query.where # <<>>) =>
    /\ result.status = "returned"
    /\ result.value.where = DenotedWhere(query.where)

\* The same of the descriptors that parse does return.
C5_ReturnedWhereInSourceOrder ==
  (HasReturned /\ query.where # <<>>) => result.value.where = DenotedWhere(query.where)

(***************************************************************************)
(* C6: an Update statement with k setters gives a descriptor whose set     *)
(* holds k entries in source order, each with the property and the value   *)
(* right of "=": an identifier as a string, null as null, any other        *)
(* literal as its typed value.                                             *)
(***************************************************************************)
C6_SettersInSourceOrder ==
  (calls > 0 /\ Grammatical(query) /\ query.verb = "UPDATE") =>
    /\ result.status = "returned"
    /\ result.value.set = DenotedSet(query.setters)

\* The same of the descriptors that parse does return.
C6_ReturnedSettersInSourceOrder ==
  (HasReturned /\ query.verb = "UPDATE") => result.value.set = DenotedSet(query.setters)

(***************************************************************************)
(* C7: in every Select descriptor, fields is the wildcard exactly when "*" *)
(* was written and otherwise the written field names in source order, and  *)
(* limit is None exactly when no LIMIT was written and otherwise the       *)
(* written integer.                                                        *)
(***************************************************************************)
C7_FieldsAndLimit ==
  (HasReturned /\ query.verb = "SELECT") =>
    /\ result.value.fields = DenotedFields(query.subset)
    /\ (result.value.fields = PyStr(W_star)) <=> (query.subset = <<W_star>>)
    /\ (result.value.limit = PyNone) <=> (query.limit = <<>>)
    /\ query.limit # <<>> => result.value.limit = Denoted(query.limit[1])

C7_Witness ==
  /\ HasReturned
  /\ query.verb = "SELECT"
  /\ query.subset = <<W_name, W_age>>
  /\ query.limit = <<W_10>>
  /\ result.value.limit = PyInt(10)

C9_BadQueryKeepsSession ==
  /\ (executed # <<>> /\ executed[Len(executed)].outcome # "ok") => repl # "crashed"
  /\ repl # "loop" => (current_query = PyStr(W_exit) /\ ~go_again)

(***************************************************************************)
(* C10: every query that was run is the text of the lines typed since the  *)
(* buffer was last emptied (by a run or by cls), without its final ";";    *)
(* a query is run once for every text that came to end with ";"; and the   *)
(* buffer holds the lines typed since it was last emptied, nothing when    *)
(* there are none, whether the run before succeeded or raised.             *)
(***************************************************************************)
C10_BufferPerQuery ==
  /\ \A i \in 1..Len(executed) :
       executed[i].text \o <<";">> = Accumulated(executed[i].lines)
  /\ Len(executed) = terminated
  /\ current_query = IF typed = <<>> THEN PyNone ELSE PyStr(Accumulated(typed))

\* Two lines built a query that raised, and the next line was run alone.
C10_Witness ==
  /\ Len(executed) = 2
  /\ Len(executed[1].lines) = 2
  /\ executed[1].outcome = "QueryError"
  /\ executed[2].text = <<"r">>
  /\ executed[1].text = <<"q", " ", "r">>
====
